---- MODULE Spec2Model ----
(***************************************************************************)
(* Model of the TRA command engine: the commands table and the operations  *)
(* on it (CommandManager.register / delete / list / findBestMatch), the    *)
(* argument parser parseArgs, the registration-text parser                 *)
(* parseRegistrationInput, and the entry points that call them (the chat   *)
(* handler and the dashboard routes).                                      *)
(*                                                                         *)
(* A JavaScript string is a sequence of one-character strings, so "a b" is *)
(* <<"a", " ", "b">> and the empty string is <<>>.  An optional value      *)
(* (undefined / null or a value) is a sequence of length 0 or 1: None is   *)
(* <<>> and Some(v) is <<v>>.                                              *)
(***************************************************************************)
EXTENDS Integers, Sequences, FiniteSets, TLC

VARIABLES
    commands,      \* the rows of the commands table
    pc,            \* position of the operation under way
    input,         \* findBestMatch: its input
    matchResult,   \* findBestMatch: its result, None for null
    argsString,    \* parseArgs: the argument string
    commandArgs,   \* parseArgs: the argument specs of the command
    tokens,        \* parseArgs: the tokens of argsString
    i,             \* parseArgs: index of the next token (0-based, as in the code)
    parsedArgs,    \* parseArgs: the result under construction
    flagStep,      \* parseArgs: what the last loop iteration did
    error,         \* the message of the Error thrown, None if none
    request,       \* the last request an entry point has served
    response,      \* its outcome
    msgText,       \* handleMessage: the text of the message under way
    posts,         \* the webhook POSTs sent for that message
    replies,       \* the WhatsApp messages sent for that message or request
    lastOp,        \* per key, the last operation chat asked for on it
    httpRequest,   \* the HTTP request served last, None before the first
    httpResponse   \* its answer, and whether its route handler ran

vars == <<commands, pc, input, matchResult, argsString, commandArgs, tokens, i,
          parsedArgs, flagStep, error, request, response, msgText, posts,
          replies, lastOp, httpRequest, httpResponse>>

matchVars == <<input, matchResult>>
parseVars == <<argsString, commandArgs, tokens, i, parsedArgs, flagStep>>
storeVars == <<request, response>>
chatVars == <<msgText, posts, replies, lastOp>>
httpVars == <<httpRequest, httpResponse>>

-----------------------------------------------------------------------------
(* Bounds of the inputs *)

MaxKeyLen == 2       \* longest command key of the matcher's table
MaxCommands == 2     \* most rows of the matcher's table
MaxInputLen == 4     \* longest input of findBestMatch
MaxArgs == 2         \* most argument specs of a command
MaxWords == 3        \* most words of an argument string

-----------------------------------------------------------------------------
(* Strings *)

\* the sequences of elements of S of length at most n
RECURSIVE SeqsUpTo(_, _)
SeqsUpTo(S, n) ==
    IF n = 0 THEN {<<>>}
    ELSE LET shorter == SeqsUpTo(S, n - 1)
         IN  shorter \cup {Append(q, x) : q \in shorter, x \in S}

None == <<>>
Some(v) == <<v>>

\* no operation asked for on any key yet
NoOps == [k \in {} |-> "none"]

\* \s of a JavaScript regular expression, and what String.prototype.trim strips
IsSpace(c) == c \in {" ", "\t", "\n"}

\* s.slice(n): s without its first n characters
Slice(s, n) == SubSeq(s, n + 1, Len(s))

\* s.startsWith(p)
StartsWith(s, p) == Len(p) <= Len(s) /\ SubSeq(s, 1, Len(p)) = p

RECURSIVE TrimStart(_)
TrimStart(s) ==
    IF s # <<>> /\ IsSpace(Head(s)) THEN TrimStart(Tail(s)) ELSE s

RECURSIVE TrimEnd(_)
TrimEnd(s) ==
    IF s # <<>> /\ IsSpace(s[Len(s)]) THEN TrimEnd(SubSeq(s, 1, Len(s) - 1)) ELSE s

\* s.trim()
Trim(s) == TrimEnd(TrimStart(s))

\* words.join(" ")
RECURSIVE JoinWords(_)
JoinWords(words) ==
    IF words = <<>> THEN <<>>
    ELSE IF Len(words) = 1 THEN words[1]
    ELSE words[1] \o <<" ">> \o JoinWords(Tail(words))

\* the strings over an alphabet of length at most n
RECURSIVE StringsUpTo(_, _)
StringsUpTo(alphabet, n) ==
    IF n = 0 THEN {<<>>}
    ELSE LET shorter == StringsUpTo(alphabet, n - 1)
         IN  shorter \cup {Append(s, c) : s \in shorter, c \in alphabet}

\* the sequences without repetition of all the elements of a finite set
RECURSIVE Permutations_(_)
Permutations_(S) ==
    IF S = {} THEN {<<>>}
    ELSE UNION {{<<x>> \o p : p \in Permutations_(S \ {x})} : x \in S}

-----------------------------------------------------------------------------
(* CommandManager.register, CommandManager.delete *)

\* a CommandArg as CommandArgSchema leaves it
CommandArg(argKey, argKeyAlias, required, defaultValue, description) ==
    [argKey |-> argKey, argKeyAlias |-> argKeyAlias, required |-> required,
     defaultValue |-> defaultValue, description |-> description]

\* a CommandDef
CommandDef(key, description, urlCall, args) ==
    [key |-> key, description |-> description, urlCall |-> urlCall, args |-> args]

\* if (arg.argKeyAlias): undefined and the empty string are both falsy
AliasIsTruthy(arg) == arg.argKeyAlias # None /\ arg.argKeyAlias[1] # <<>>

\* the loop over cmd.args without its test of the alias
RECURSIVE DuplicateArgKeyOnly(_, _, _)
DuplicateArgKeyOnly(args, n, keys) ==
    IF n > Len(args) THEN None
    ELSE LET arg == args[n]
         IN  IF arg.argKey \in keys
             THEN Some([message |-> "Duplicate arg key: ", detail |-> arg.argKey])
             ELSE DuplicateArgKeyOnly(args, n + 1, keys \cup {arg.argKey})

\* the loop of register over cmd.args from the n-th on, keys being the Set
\* built so far: the Error thrown, None if the loop ends
RECURSIVE DuplicateArg(_, _, _)
DuplicateArg(args, n, keys) ==
    IF n > Len(args) THEN None
    ELSE LET arg == args[n]
             withKey == keys \cup {arg.argKey}
         IN  IF arg.argKey \in keys
             THEN Some([message |-> "Duplicate arg key: ", detail |-> arg.argKey])
             ELSE IF AliasIsTruthy(arg)
                  THEN IF arg.argKeyAlias[1] \in withKey
                       THEN Some([message |-> "Duplicate arg alias: ",
                                  detail |-> arg.argKeyAlias[1]])
                       ELSE DuplicateArg(args, n + 1,
                                         withKey \cup {arg.argKeyAlias[1]})
                  ELSE DuplicateArg(args, n + 1, withKey)

\* the Error register throws for cmd, None if it reaches the INSERT
RegisterError(cmd) == DuplicateArg(cmd.args, 1, {})

\* INSERT without OR REPLACE semantics: the row is added beside the old one
InsertKeepingOld(rows, cmd) == rows \cup {cmd}

\* INSERT OR REPLACE INTO commands, key being the PRIMARY KEY: the row of the
\* same key, if any, is removed and the new row inserted.  The row read back
\* by list() is the CommandDef written: JSON.stringify / JSON.parse of args
\* keeps every field that is not undefined, and an undefined description is
\* bound as NULL.
InsertOrReplace(rows, cmd) == {r \in rows : r.key # cmd.key} \cup {cmd}

\* a delete that removes nothing
DeleteRowKept(rows, key) == rows

\* DELETE FROM commands WHERE key = ?
DeleteRow(rows, key) == {r \in rows : r.key # key}

-----------------------------------------------------------------------------
(* CommandManager.list and CommandManager.findBestMatch *)

\* SELECT * FROM commands names no order: any order of the rows
list == Permutations_(commands)

\* Array.prototype.sort with (a, b) => b.key.length - a.key.length: a stable
\* sort, longest key first (insertion of each element after the elements that
\* do not sort after it)
RECURSIVE InsertByKeyLength(_, _)
InsertByKeyLength(sorted, cmd) ==
    IF sorted = <<>> THEN <<cmd>>
    ELSE IF Len(Head(sorted).key) >= Len(cmd.key)
         THEN <<Head(sorted)>> \o InsertByKeyLength(Tail(sorted), cmd)
         ELSE <<cmd>> \o sorted

RECURSIVE SortByKeyLengthDesc(_)
SortByKeyLengthDesc(cmds) ==
    IF cmds = <<>> THEN <<>>
    ELSE InsertByKeyLength(SortByKeyLengthDesc(SubSeq(cmds, 1, Len(cmds) - 1)),
                           cmds[Len(cmds)])

\* the test without its boundary check: any prefix matches
KeyMatchesAnyPrefix(in, key) == StartsWith(in, key)

\* the test of one command in the loop of findBestMatch
KeyMatches(in, key) ==
    /\ StartsWith(in, key)
    /\ LET rest == Slice(in, Len(key))
       IN  Len(rest) = 0 \/ StartsWith(rest, <<" ">>)

\* the loop of findBestMatch over the sorted commands: first match wins
RECURSIVE ScanCommands(_, _)
ScanCommands(cmds, in) ==
    IF cmds = <<>> THEN None
    ELSE IF KeyMatches(in, Head(cmds).key)
         THEN Some([command |-> Head(cmds),
                    argsString |-> Trim(Slice(in, Len(Head(cmds).key)))])
         ELSE ScanCommands(Tail(cmds), in)

findBestMatch(rows, in) == ScanCommands(SortByKeyLengthDesc(rows), in)

-----------------------------------------------------------------------------
(* parseArgs *)

\* the state of the tokenizer's loop after the first n characters of s
RECURSIVE TokenizerState(_, _)
TokenizerState(s, n) ==
    IF n = 0 THEN [tokens |-> <<>>, currentToken |-> <<>>, inQuote |-> FALSE]
    ELSE LET st == TokenizerState(s, n - 1)
             char == s[n]
         IN  IF char = "\""
             THEN [st EXCEPT !.inQuote = ~st.inQuote]
             ELSE IF char = " " /\ ~st.inQuote
             THEN IF st.currentToken # <<>>
                  THEN [st EXCEPT !.tokens = Append(st.tokens, st.currentToken),
                                  !.currentToken = <<>>]
                  ELSE st
             ELSE [st EXCEPT !.currentToken = Append(st.currentToken, char)]

\* step 1 without the flush after the loop: the last token is lost
TokenizeNoFlush(s) == TokenizerState(s, Len(s)).tokens

\* step 1 with a flush after the loop that does not test the buffer: an
\* empty buffer becomes a token
TokenizeFlushAlways(s) ==
    LET st == TokenizerState(s, Len(s))
    IN  Append(st.tokens, st.currentToken)

\* step 1 of parseArgs: the tokens of s
Tokenize(s) ==
    LET st == TokenizerState(s, Len(s))
    IN  IF st.currentToken # <<>> THEN Append(st.tokens, st.currentToken)
        ELSE st.tokens

\* token.replace(/^-+/, ''): the token without its leading dashes
RECURSIVE StripDashes(_)
StripDashes(token) ==
    IF token # <<>> /\ Head(token) = "-" THEN StripDashes(Tail(token)) ELSE token

\* the predicate of commandArgs.find
ArgDefMatches(a, isLong, rawKey) ==
    \/ (isLong /\ a.argKey = rawKey)
    \/ (~isLong /\ a.argKeyAlias = Some(rawKey))
    \/ a.argKey = rawKey

\* commandArgs.find(...): the first spec the predicate accepts, None if none
RECURSIVE FindArgDef(_, _, _)
FindArgDef(specs, isLong, rawKey) ==
    IF specs = <<>> THEN None
    ELSE IF ArgDefMatches(Head(specs), isLong, rawKey) THEN Some(Head(specs))
         ELSE FindArgDef(Tail(specs), isLong, rawKey)

\* value.match(/^".*"$/) and value.match(/^'.*'$/): wrapped in the quote q
WrappedIn(value, q) ==
    Len(value) >= 2 /\ value[1] = q /\ value[Len(value)] = q

\* the condition under which the token after a flag is taken for another flag
LooksLikeFlag(value) ==
    /\ StartsWith(value, <<"-">>)
    /\ ~WrappedIn(value, "\"")
    /\ ~WrappedIn(value, "'")

\* an assignment that keeps the value a key already has
SetArgKeepFirst(parsed, key, value) ==
    [k \in DOMAIN parsed \cup {key} |->
        IF k \in DOMAIN parsed THEN parsed[k] ELSE value]

\* parsedArgs[key] = value
SetArg(parsed, key, value) ==
    [k \in DOMAIN parsed \cup {key} |-> IF k = key THEN value ELSE parsed[k]]

Error(message, detail) == Some([message |-> message, detail |-> detail])

\* the default of a flag that has no value: never assigned
FlagDefaultIgnored(argDef) == None

\* what a flag that has no value is given: argDef.defaultValue
FlagDefault(argDef) == argDef.defaultValue

\* the decision without the test of the dash: every next token is a value
IsValueAnyToken(value, argDef) ==
    IF value = None \/ value[1] = <<>> THEN "no" ELSE "yes"

\* whether the token after the flag (None if there is none) is consumed as its
\* value; "throw" when the code throws in deciding it
IsValue(value, argDef) ==
    IF value = None \/ value[1] = <<>> THEN "no"
    ELSE IF LooksLikeFlag(value[1])
         THEN IF argDef.defaultValue # None THEN "no" ELSE "throw"
         ELSE "yes"

\* step 3 with the two tests in the other order: required is tested first
RECURSIVE FillRequiredFirst(_, _, _)
FillRequiredFirst(specs, n, parsed) ==
    IF n > Len(specs) THEN [parsedArgs |-> parsed, error |-> None]
    ELSE LET arg == specs[n]
         IN  IF arg.argKey \notin DOMAIN parsed
             THEN IF arg.required
                  THEN [parsedArgs |-> parsed,
                        error |-> Error("Missing required argument: --",
                                        arg.argKey)]
                  ELSE IF arg.defaultValue # None
                       THEN FillRequiredFirst(specs, n + 1,
                                SetArg(parsed, arg.argKey, arg.defaultValue[1]))
                       ELSE FillRequiredFirst(specs, n + 1, parsed)
             ELSE FillRequiredFirst(specs, n + 1, parsed)

\* step 3 of parseArgs over the specs from the n-th on: the result, or the
\* error thrown
RECURSIVE FillFrom(_, _, _)
FillFrom(specs, n, parsed) ==
    IF n > Len(specs) THEN [parsedArgs |-> parsed, error |-> None]
    ELSE LET arg == specs[n]
         IN  IF arg.argKey \notin DOMAIN parsed
             THEN IF arg.defaultValue # None
                  THEN FillFrom(specs, n + 1,
                                SetArg(parsed, arg.argKey, arg.defaultValue[1]))
                  ELSE IF arg.required
                       THEN [parsedArgs |-> parsed,
                             error |-> Error("Missing required argument: --",
                                             arg.argKey)]
                       ELSE FillFrom(specs, n + 1, parsed)
             ELSE FillFrom(specs, n + 1, parsed)

EmptyArgs == [k \in {} |-> <<>>]

\* parseArgs is entered: step 1, the tokens
ParseArgsTokenize ==
    /\ pc = "parseArgs"
    /\ tokens' = Tokenize(argsString)
    /\ i' = 0
    /\ parsedArgs' = EmptyArgs
    /\ pc' = "tokens"
    /\ UNCHANGED <<commands, matchVars, argsString, commandArgs, flagStep,
                   error, storeVars>>
    /\ UNCHANGED chatVars
    /\ UNCHANGED httpVars

\* one iteration of the while loop of step 2
ParseArgsToken ==
    /\ pc = "tokens"
    /\ i < Len(tokens)
    /\ LET token == tokens[i + 1]
       IN  IF StartsWith(token, <<"-">>)
           THEN LET isLong == StartsWith(token, <<"-", "-">>)
                    rawKey == StripDashes(token)
                    found == FindArgDef(commandArgs, isLong, rawKey)
                    value == IF i + 1 < Len(tokens) THEN Some(tokens[i + 2])
                             ELSE None
                IN  IF found = None
                    THEN /\ error' = Error("Unknown argument: ", token)
                         /\ pc' = "thrown"
                         /\ flagStep' = Some([index |-> i, argDef |-> None,
                                              outcome |-> "unknown"])
                         /\ UNCHANGED <<i, parsedArgs>>
                    ELSE LET argDef == found[1]
                             isValue == IsValue(value, argDef)
                         IN  IF isValue = "yes"
                             THEN /\ parsedArgs' =
                                       SetArg(parsedArgs, argDef.argKey, value[1])
                                  /\ i' = i + 2
                                  /\ flagStep' = Some([index |-> i,
                                                       argDef |-> found,
                                                       outcome |-> "value"])
                                  /\ UNCHANGED <<pc, error>>
                             ELSE IF isValue = "no" /\ FlagDefault(argDef) # None
                             THEN /\ parsedArgs' =
                                       SetArg(parsedArgs, argDef.argKey,
                                              FlagDefault(argDef)[1])
                                  /\ i' = i + 1
                                  /\ flagStep' = Some([index |-> i,
                                                       argDef |-> found,
                                                       outcome |-> "default"])
                                  /\ UNCHANGED <<pc, error>>
                             ELSE /\ error' = Error("Argument requires a value.",
                                                    token)
                                  /\ pc' = "thrown"
                                  /\ flagStep' = Some([index |-> i,
                                                       argDef |-> found,
                                                       outcome |-> "throw"])
                                  /\ UNCHANGED <<i, parsedArgs>>
           ELSE /\ error' = Error("Unexpected positional argument: ", token)
                /\ pc' = "thrown"
                /\ flagStep' = Some([index |-> i, argDef |-> None,
                                     outcome |-> "positional"])
                /\ UNCHANGED <<i, parsedArgs>>
    /\ UNCHANGED <<commands, matchVars, argsString, commandArgs, tokens,
                   storeVars>>
    /\ UNCHANGED chatVars
    /\ UNCHANGED httpVars

\* the loop is over: step 3, then the return
ParseArgsFill ==
    /\ pc = "tokens"
    /\ i >= Len(tokens)
    /\ LET filled == FillFrom(commandArgs, 1, parsedArgs)
       IN  /\ parsedArgs' = filled.parsedArgs
           /\ error' = filled.error
           /\ pc' = IF filled.error = None THEN "returned" ELSE "thrown"
    /\ UNCHANGED <<commands, matchVars, argsString, commandArgs, tokens, i,
                   flagStep, storeVars>>
    /\ UNCHANGED chatVars
    /\ UNCHANGED httpVars

-----------------------------------------------------------------------------
(* parseRegistrationInput.  Its inputs here are single lines: no line       *)
(* terminator, which "." of a regular expression does not match.            *)

UpperCase == <<"A", "B", "C", "D", "E", "F", "G", "H", "I", "J", "K", "L", "M",
               "N", "O", "P", "Q", "R", "S", "T", "U", "V", "W", "X", "Y", "Z">>
LowerCase == <<"a", "b", "c", "d", "e", "f", "g", "h", "i", "j", "k", "l", "m",
               "n", "o", "p", "q", "r", "s", "t", "u", "v", "w", "x", "y", "z">>

\* the case folding of the "i" flag of a regular expression
Lower(c) ==
    IF \E n \in 1..Len(UpperCase) : UpperCase[n] = c
    THEN LowerCase[CHOOSE n \in 1..Len(UpperCase) : UpperCase[n] = c]
    ELSE c
LowerAll(s) == [n \in 1..Len(s) |-> Lower(s[n])]

\* [:\s] of the regular expressions
IsSeparator(c) == c = ":" \/ IsSpace(c)

\* s has t at the (1-based) position p
HasAt(s, p, t) == p + Len(t) - 1 <= Len(s) /\ SubSeq(s, p, p + Len(t) - 1) = t

\* the least element of a non-empty set of numbers
Min(S) == CHOOSE n \in S : \A m \in S : n <= m

\* input.search(/--|\[/): the 0-based index of the first "--" or "[", -1 if none
SearchFirstFlag(in) ==
    LET hits == {p \in 1..Len(in) : HasAt(in, p, <<"-", "-">>) \/ in[p] = "["}
    IN  IF hits = {} THEN -1 ELSE Min(hits) - 1

\* the first position from p on that holds no separator
RECURSIVE SkipSeparators(_, _)
SkipSeparators(s, p) ==
    IF p <= Len(s) /\ IsSeparator(s[p]) THEN SkipSeparators(s, p + 1) ELSE p

\* the first position from p on that holds no white space
RECURSIVE SkipSpaces(_, _)
SkipSpaces(s, p) ==
    IF p <= Len(s) /\ IsSpace(s[p]) THEN SkipSpaces(s, p + 1) ELSE p

\* the lookahead (?=\s+--|\s*\[|$) at position q
FlagEndsAt(s, q) ==
    LET after == SkipSpaces(s, q)
    IN  \/ \E r \in (q + 1)..after : HasAt(s, r, <<"-", "-">>)
        \/ \E r \in q..after : HasAt(s, r, <<"[">>)
        \/ q = Len(s) + 1

\* extractFlag(name, source): the regular expression
\* --name[:\s]+(.*?)(?=\s+--|\s*\[|$) with the flag "i"; its first group,
\* trimmed, or None when it does not match
extractFlag(name, source) ==
    LET flag == <<"-", "-">> \o LowerAll(name)
        folded == LowerAll(source)
        starts == {p \in 1..Len(source) :
                      /\ HasAt(folded, p, flag)
                      /\ p + Len(flag) <= Len(source)
                      /\ IsSeparator(source[p + Len(flag)])}
    IN  IF starts = {} THEN None
        ELSE LET from == SkipSeparators(source, Min(starts) + Len(flag))
                 to == Min({q \in from..(Len(source) + 1) : FlagEndsAt(source, q)})
             IN  Some(Trim(SubSeq(source, from, to - 1)))

\* text.split('--'): the pieces between the occurrences of "--", found from
\* left to right; piece is the piece under way
RECURSIVE SplitOnDashes(_, _)
SplitOnDashes(text, piece) ==
    IF text = <<>> THEN <<piece>>
    ELSE IF HasAt(text, 1, <<"-", "-">>)
         THEN <<piece>> \o SplitOnDashes(Slice(text, 2), <<>>)
         ELSE SplitOnDashes(Tail(text), Append(piece, Head(text)))

\* part.split(/[:\s]+/): the pieces between the runs of separators
RECURSIVE SplitOnSeparators(_, _)
SplitOnSeparators(part, piece) ==
    IF part = <<>> THEN <<piece>>
    ELSE IF IsSeparator(Head(part))
         THEN <<piece>> \o SplitOnSeparators(
                               SubSeq(part, SkipSeparators(part, 1), Len(part)),
                               <<>>)
         ELSE SplitOnSeparators(Tail(part), Append(piece, Head(part)))

\* the value of one part of a block: vParts.join(' ').trim() without one
\* trailing comma
PartValue(pieces) ==
    LET v == Trim(JoinWords(Tail(pieces)))
    IN  IF v # <<>> /\ v[Len(v)] = "," THEN SubSeq(v, 1, Len(v) - 1) ELSE v

NoFields ==
    [argKey |-> None, argKeyAlias |-> None, required |-> None,
     defaultValue |-> None, description |-> None]

\* the loop of parseInner over the parts from the n-th on
RECURSIVE AssignParts(_, _, _)
AssignParts(parts, n, obj) ==
    IF n > Len(parts) THEN obj
    ELSE LET pieces == SplitOnSeparators(parts[n], <<>>)
             k == pieces[1]
             v == PartValue(pieces)
             next ==
                 IF k = <<"a", "r", "g", "K", "e", "y">>
                 THEN [obj EXCEPT !.argKey = Some(v)]
                 ELSE IF k = <<"a", "r", "g", "K", "e", "y", "A", "l", "i", "a", "s">>
                 THEN [obj EXCEPT !.argKeyAlias = Some(v)]
                 ELSE IF k = <<"r", "e", "q", "u", "i", "r", "e", "d">>
                 THEN [obj EXCEPT !.required = Some(v = <<"t", "r", "u", "e">>)]
                 ELSE IF k = <<"d", "e", "f", "a", "u", "l", "t", "V", "a", "l", "u", "e">>
                 THEN [obj EXCEPT !.defaultValue = Some(v)]
                 ELSE IF k = <<"d", "e", "s", "c", "r", "i", "p", "t", "i", "o", "n">>
                 THEN [obj EXCEPT !.description = Some(v)]
                 ELSE obj
         IN  AssignParts(parts, n + 1, next)

\* parseInner(text): the fields the block sets
parseInner(text) ==
    LET parts == SelectSeq(SplitOnDashes(text, <<>>), LAMBDA q : Trim(q) # <<>>)
    IN  AssignParts(parts, 1, NoFields)

\* CommandArgSchema.parse(obj): the CommandArg, or None when it throws
\* (argKey is not a string); required defaults to false
CommandArgSchemaParse(obj) ==
    IF obj.argKey = None THEN None
    ELSE Some(CommandArg(obj.argKey[1], obj.argKeyAlias,
                         IF obj.required = None THEN FALSE ELSE obj.required[1],
                         obj.defaultValue, obj.description))

\* the while loop over bracketRegex = /\[(.*?)\]/g from position p on, args
\* being the array built so far: the args, or None when a block is invalid
RECURSIVE ParseBlocks(_, _, _)
ParseBlocks(rest, p, args) ==
    LET opens == {q \in p..Len(rest) :
                     /\ rest[q] = "["
                     /\ \E r \in (q + 1)..Len(rest) : rest[r] = "]"}
    IN  IF opens = {} THEN Some(args)
        ELSE LET open == Min(opens)
                 close == Min({r \in (open + 1)..Len(rest) : rest[r] = "]"})
                 valid == CommandArgSchemaParse(
                              parseInner(SubSeq(rest, open + 1, close - 1)))
             IN  IF valid = None THEN None
                 ELSE ParseBlocks(rest, close + 1, Append(args, valid[1]))

\* parseRegistrationInput(input): [cmd |-> the CommandDef, error |-> None], or
\* the Error thrown
parseRegistrationInput(in) ==
    LET firstFlagIndex == SearchFirstFlag(in)
        keyRaw == Trim(SubSeq(in, 1, firstFlagIndex))
        rest == Slice(in, firstFlagIndex)
        description == extractFlag(<<"d", "e", "s", "c", "r", "i", "p", "t", "i", "o", "n">>,
                                   rest)
        urlCall == extractFlag(<<"u", "r", "l", "C", "a", "l", "l">>, rest)
        args == ParseBlocks(rest, 1, <<>>)
    IN  IF firstFlagIndex = -1
        THEN [cmd |-> None,
              error |-> Error("Missing description, urlCall or args definition.",
                              <<>>)]
        ELSE IF keyRaw = <<>>
        THEN [cmd |-> None, error |-> Error("Missing command key.", <<>>)]
        ELSE IF urlCall = None \/ urlCall[1] = <<>>
        THEN [cmd |-> None, error |-> Error("Missing --urlCall", <<>>)]
        ELSE IF args = None
        THEN [cmd |-> None, error |-> Error("ZodError", <<>>)]
        ELSE [cmd |-> Some(CommandDef(keyRaw, description, urlCall[1], args[1])),
              error |-> None]

-----------------------------------------------------------------------------
(* The entry points that change the commands table *)

Letters == {LowerCase[n] : n \in 1..Len(LowerCase)}
             \cup {UpperCase[n] : n \in 1..Len(UpperCase)}
SchemeChars ==
    Letters \cup {"0", "1", "2", "3", "4", "5", "6", "7", "8", "9", "+", "-", "."}

\* z.string().url(): the string parses as an absolute URL, which takes a
\* scheme (a letter, then letters, digits, "+", "-", "."), a colon and, after
\* "//", a host
IsUrl(u) ==
    \E n \in 2..Len(u) :
        /\ u[n] = ":"
        /\ u[1] \in Letters
        /\ \A m \in 2..(n - 1) : u[m] \in SchemeChars
        /\ HasAt(u, n + 1, <<"/", "/">>) => Len(u) > n + 2

\* RegisterCommandSchema.parse(command) on a command whose fields have the
\* types of the schema: the Error thrown, None when it returns the command
RegisterCommandSchemaError(command) ==
    IF Len(command.key) < 1
    THEN Error("String must contain at least 1 character(s)", <<>>)
    ELSE IF ~IsUrl(command.urlCall) THEN Error("Invalid url", <<>>)
    ELSE None

StoreKeys == {<<"a">>, <<"b">>}

\* the pieces a registration text is put together from: a key, the urlCall
\* flag or nothing, and at most MaxArgs argument blocks
KeyTexts == {<<"a">>, <<>>}
UrlTexts == {<<" ", "-", "-", "u", "r", "l", "C", "a", "l", "l", " ", "h", ":", "/", "/", "x">>,
             <<" ", "-", "-", "u", "r", "l", "C", "a", "l", "l", ":", " ", "x">>,
             <<>>}
BlockTexts == {<<" ", "[", "-", "-", "a", "r", "g", "K", "e", "y", " ", "a", "]">>,
               <<" ", "[", "-", "-", "a", "r", "g", "K", "e", "y", ":", " ", "b", " ", "-", "-", "a", "r", "g", "K", "e", "y", "A", "l", "i", "a", "s", ":", " ", "a", "]">>,
               <<" ", "[", "-", "-", "a", "r", "g", "K", "e", "y", "A", "l", "i", "a", "s", ":", " ", "]">>}

RECURSIVE Concat(_)
Concat(pieces) ==
    IF pieces = <<>> THEN <<>> ELSE Head(pieces) \o Concat(Tail(pieces))

RegistrationTexts ==
    {k \o u \o Concat(blocks) :
        k \in KeyTexts, u \in UrlTexts, blocks \in SeqsUpTo(BlockTexts, MaxArgs)}

\* registration texts for the text entry points: keys with spaces around and
\* inside, and what may follow the key
TextKeys ==
    {<<>>,
     <<"a">>,
     <<" ", "a", " ", " ", "b", " ">>}
TextTails ==
    {<<>>,
     <<" ", "-", "-", "u", "r", "l", "C", "a", "l", "l", " ", "h", ":", "/", "/", "x">>,
     <<" ", "-", "-", "U", "R", "L", "C", "A", "L", "L", ":", " ", "x">>,
     <<" ", "-", "-", "u", "r", "l", "C", "a", "l", "l", ":", " ">>,
     <<" ", "-", "-", "u", "r", "l", "C", "a", "l", "l", " ", "-", "-", "d", "e", "s", "c", "r", "i", "p", "t", "i", "o", "n", " ", "d">>,
     <<" ", "-", "-", "d", "e", "s", "c", "r", "i", "p", "t", "i", "o", "n", " ", "d">>,
     <<" ", "[", "-", "-", "a", "r", "g", "K", "e", "y", " ", "a", "]">>,
     <<" ", "-", "-", "u", "r", "l", "C", "a", "l", "l", " ", "[", "-", "-", "a", "r", "g", "K", "e", "y", " ", "a", "]">>,
     <<" ", "-", "-", "u", "r", "l", "C", "a", "l", "l", " ", "x", " ", "[", "-", "-", "a", "r", "g", "K", "e", "y", " ", "a", " ", "-", "-", "d", "e", "f", "a", "u", "l", "t", "V", "a", "l", "u", "e", ":", " ", "b", ":", "c", "]">>,
     <<" ", "-", "-", "u", "r", "l", "C", "a", "l", "l", " ", "x", " ", "[", "-", "-", "a", "r", "g", "K", "e", "y", ":", " ", "a", " ", "-", "-", "d", "e", "s", "c", "r", "i", "p", "t", "i", "o", "n", " ", "b", " ", " ", "c", ",", "]">>,
     <<" ", "-", "-", "u", "r", "l", "C", "a", "l", "l", " ", "x", " ", "[", "-", "-", "a", "r", "g", "K", "e", "y", " ", "a", ",", " ", "-", "-", "a", "r", "g", "K", "e", "y", "A", "l", "i", "a", "s", ":", " ", "b", " ", "-", "-", "d", "e", "f", "a", "u", "l", "t", "V", "a", "l", "u", "e", " ", "c", " ", "d", "]">>,
     <<" ", "[", "-", "-", "a", "r", "g", "K", "e", "y", " ", "a", "]", " ", "-", "-", "u", "r", "l", "C", "a", "l", "l", " ", "x">>}
TextInputs == {k \o tail : k \in TextKeys, tail \in TextTails}

\* the registrations asked for in chat: the key and what follows it
ChatRegistrations ==
    {[key |-> <<"a">>,
      tail |-> <<" ", "-", "-", "u", "r", "l", "C", "a", "l", "l", " ", "h", ":", "/", "/", "x", " ", "[", "-", "-", "a", "r", "g", "K", "e", "y", " ", "a", " ", "-", "-", "r", "e", "q", "u", "i", "r", "e", "d", " ", "t", "r", "u", "e", "]">>],
     [key |-> <<"a">>,
      tail |-> <<" ", "-", "-", "u", "r", "l", "C", "a", "l", "l", " ", "h", ":", "/", "/", "x">>],
     [key |-> <<"a", " ", "b">>,
      tail |-> <<" ", "-", "-", "u", "r", "l", "C", "a", "l", "l", " ", "x">>],
     [key |-> <<"h", "e", "l", "p">>,
      tail |-> <<" ", "-", "-", "u", "r", "l", "C", "a", "l", "l", " ", "h", ":", "/", "/", "x">>],
     [key |-> <<"a">>,
      tail |-> <<" ", "-", "-", "d", "e", "s", "c", "r", "i", "p", "t", "i", "o", "n", " ", "d">>]}

\* every text the entry points hand to parseRegistrationInput
RegistrationInputs ==
    RegistrationTexts \cup {Trim(text) : text \in RegistrationTexts}
        \cup TextInputs \cup {Trim(text) : text \in TextInputs}
        \cup {TrimEnd(text) : text \in TextInputs}
        \cup {reg.key \o reg.tail : reg \in ChatRegistrations}

\* parseRegistrationInput on the registration texts, worked out once
ParsedRegistrationTexts ==
    [in \in RegistrationInputs |-> parseRegistrationInput(in)]

ParseRegistration(in) == ParsedRegistrationTexts[in]

Request(entry, oldKey, cmd) == [entry |-> entry, oldKey |-> oldKey, cmd |-> cmd]
Accepted == [ok |-> TRUE, error |-> None]
Rejected(err) == [ok |-> FALSE, error |-> err]

\* the two calls of a registration by text, parseRegistrationInput(regInput)
\* and CommandManager.register(cmdDef), inside the try of their entry point
RegisterParsed(entry, parsed) ==
        IF parsed.error # None
        THEN /\ request' = Request(entry, None, None)
             /\ response' = Rejected(parsed.error)
             /\ UNCHANGED commands
        ELSE LET cmdDef == parsed.cmd[1]
                 thrown == RegisterError(cmdDef)
             IN  /\ request' = Request(entry, None, parsed.cmd)
                 /\ IF thrown # None
                    THEN /\ response' = Rejected(thrown)
                         /\ UNCHANGED commands
                    ELSE /\ response' = Accepted
                         /\ commands' = InsertOrReplace(commands, cmdDef)

RegisterFromText(entry, regInput) ==
    RegisterParsed(entry, ParseRegistration(regInput))

CommandPrefix == <<"c", "o", "m", "m", "a", "n", "d", " ">>
RegisterPrefix == <<"r", "e", "g", "i", "s", "t", "e", "r", " ">>
DeletePrefix == <<"d", "e", "l", "e", "t", "e", " ">>
ChatRegisterPrefix == <<"/", "c", "o", "m", "m", "a", "n", "d", " ", "r", "e", "g", "i", "s", "t", "e", "r", " ">>
ChatDeletePrefix == <<"/", "c", "o", "m", "m", "a", "n", "d", " ", "d", "e", "l", "e", "t", "e", " ">>
FormRegisterPrefix == <<"/", "c", "o", "m", "m", "a", "n", "d", " ", "r", "e", "g", "i", "s", "t", "e", "r", " ">>

\* content = text.slice(1).trim()
MessageContent(text) == Trim(Slice(text, 1))

\* sub = content.slice('command '.length).trim()
CommandSub(text) == Trim(Slice(MessageContent(text), Len(CommandPrefix)))

\* regInput = sub.slice('register '.length)
ChatRegistrationInput(text) == Slice(CommandSub(text), Len(RegisterPrefix))

\* handleMessage on a message that starts with "/command ": the built-in
\* branch (register, delete, list, usage)
HandleCommandMessage(text) ==
    LET content == MessageContent(text)
        sub == CommandSub(text)
    IN  /\ StartsWith(text, <<"/">>)
        /\ StartsWith(content, CommandPrefix)
        /\ IF StartsWith(sub, RegisterPrefix)
           THEN RegisterFromText("chat register", ChatRegistrationInput(text))
           ELSE IF StartsWith(sub, DeletePrefix)
           THEN /\ commands' = DeleteRow(commands, Trim(Slice(sub, Len(DeletePrefix))))
                /\ request' = Request("chat delete", None, None)
                /\ response' = Accepted
           ELSE /\ request' = Request("chat other", None, None)
                /\ response' = Accepted
                /\ UNCHANGED commands

\* the input POST /api/commands/register-text hands to parseRegistrationInput
FormRegistrationInput(commandText) ==
    LET trimmed == Trim(commandText)
    IN  IF StartsWith(trimmed, FormRegisterPrefix)
        THEN Slice(trimmed, Len(FormRegisterPrefix))
        ELSE IF StartsWith(trimmed, RegisterPrefix)
        THEN Slice(trimmed, Len(RegisterPrefix))
        ELSE trimmed

\* POST /api/commands/register-text
RegisterText(commandText) ==
    RegisterFromText("register-text", FormRegistrationInput(commandText))

\* POST /api/commands/save with the body {oldKey, command}
SaveCommand(oldKey, command) ==
    LET invalid == RegisterCommandSchemaError(command)
        deleteOld == oldKey # None /\ oldKey[1] # <<>> /\ oldKey[1] # command.key
        afterDelete == IF deleteOld THEN DeleteRow(commands, oldKey[1])
                       ELSE commands
        thrown == RegisterError(command)
    IN  IF invalid # None
        THEN /\ request' = Request("save", None, None)
             /\ response' = Rejected(invalid)
             /\ UNCHANGED commands
        ELSE /\ request' = Request("save", IF deleteOld THEN oldKey ELSE None,
                                   Some(command))
             /\ IF thrown # None
                THEN /\ response' = Rejected(thrown)
                     /\ commands' = afterDelete
                ELSE /\ response' = Accepted
                     /\ commands' = InsertOrReplace(afterDelete, command)

\* DELETE /api/commands/:key
DeleteCommand(key) ==
    /\ commands' = DeleteRow(commands, key)
    /\ request' = Request("delete", None, None)
    /\ response' = Accepted

-----------------------------------------------------------------------------
(* The inputs the operations are run on *)

ValidUrl == <<"h", ":", "/", "/", "x">>

MatchKeys == StringsUpTo({"a", " "}, MaxKeyLen) \ {<<>>}
MatchTables ==
    {{CommandDef(k, None, ValidUrl, <<>>) : k \in K} :
        K \in {K \in SUBSET MatchKeys : Cardinality(K) <= MaxCommands}}
MatchInputs == StringsUpTo({"a", "b", " "}, MaxInputLen)

ArgKeyValues == {<<"a">>, <<>>}
AliasValues == {None, Some(<<"b">>), Some(<<>>)}
DefaultValues == {None, Some(<<"d">>), Some(<<>>)}
ArgSpecs ==
    {CommandArg(k, al, r, d, None) :
        k \in ArgKeyValues, al \in AliasValues, r \in BOOLEAN, d \in DefaultValues}
ArgLists == SeqsUpTo(ArgSpecs, MaxArgs)

\* the argument lists register lets into the table
StorableArgLists == {args \in ArgLists : DuplicateArg(args, 1, {}) = None}

ArgWords ==
    {<<"-", "-", "a">>, <<"-", "a">>, <<"-", "-", "b">>, <<"-", "b">>, <<"-">>,
     <<"-", "-", "A">>, <<"b">>, <<"\"", "-", "b", "\"">>}
ArgStrings == {JoinWords(ws) : ws \in SeqsUpTo(ArgWords, MaxWords)}

-----------------------------------------------------------------------------
(* findBestMatch on every table and input *)

FindBestMatch ==
    /\ pc = "findBestMatch"
    /\ \E rows \in list : matchResult' = findBestMatch(rows, input)
    /\ pc' = "matched"
    /\ UNCHANGED <<commands, input, parseVars, error, storeVars>>
    /\ UNCHANGED chatVars
    /\ UNCHANGED httpVars

InitMatch ==
    /\ commands \in MatchTables
    /\ pc = "findBestMatch"
    /\ input \in MatchInputs
    /\ matchResult = None
    /\ argsString = <<>>
    /\ commandArgs = <<>>
    /\ tokens = <<>>
    /\ i = 0
    /\ parsedArgs = EmptyArgs
    /\ flagStep = None
    /\ error = None
    /\ request = None
    /\ response = None
    /\ msgText = <<>>
    /\ posts = <<>>
    /\ replies = <<>>
    /\ lastOp = NoOps
    /\ httpRequest = None
    /\ httpResponse = None

NextMatch == FindBestMatch

SpecMatch == InitMatch /\ [][NextMatch]_vars

\* K qualifies for the input: the input is K, or K followed by a space and more
Qualifies(key, in) == in = key \/ StartsWith(in, key \o <<" ">>)

AllSpaces(s) == \A n \in 1..Len(s) : s[n] = " "

\* t is s without the spaces at its two ends
IsTrimOf(t, s) ==
    /\ t = <<>> \/ (t[1] # " " /\ t[Len(t)] # " ")
    /\ \E m \in 0..Len(s), n \in 0..Len(s) :
          /\ m + Len(t) + n = Len(s)
          /\ SubSeq(s, m + 1, m + Len(t)) = t
          /\ AllSpaces(SubSeq(s, 1, m))
          /\ AllSpaces(SubSeq(s, m + Len(t) + 1, Len(s)))

\* C1: findBestMatch returns the longest key of the table that the input
\* equals or starts with followed by a space, with the trimmed rest of the
\* input; a key followed by another character never matches; null if no key
\* qualifies.
C1_LongestBoundedPrefix ==
    pc = "matched" =>
        LET qualifying == {r \in commands : Qualifies(r.key, input)}
        IN  IF qualifying = {} THEN matchResult = None
            ELSE /\ matchResult # None
                 /\ matchResult[1].command \in qualifying
                 /\ \A r \in qualifying :
                       Len(r.key) <= Len(matchResult[1].command.key)
                 /\ IsTrimOf(matchResult[1].argsString,
                             Slice(input, Len(matchResult[1].command.key)))

\* a shorter key qualifies too and the longer one is returned, with arguments
C1_Witness ==
    /\ pc = "matched"
    /\ matchResult # None
    /\ matchResult[1].argsString # <<>>
    /\ \E r \in commands :
          /\ Qualifies(r.key, input)
          /\ Len(r.key) < Len(matchResult[1].command.key)

-----------------------------------------------------------------------------
(* parseArgs on every stored argument list and argument string *)

InitParse ==
    /\ commands = {}
    /\ pc = "parseArgs"
    /\ argsString \in ArgStrings
    /\ commandArgs \in StorableArgLists
    /\ input = <<>>
    /\ matchResult = None
    /\ tokens = <<>>
    /\ i = 0
    /\ parsedArgs = EmptyArgs
    /\ flagStep = None
    /\ error = None
    /\ request = None
    /\ response = None
    /\ msgText = <<>>
    /\ posts = <<>>
    /\ replies = <<>>
    /\ lastOp = NoOps
    /\ httpRequest = None
    /\ httpResponse = None

NextParse == ParseArgsTokenize \/ ParseArgsToken \/ ParseArgsFill

SpecParse == InitParse /\ [][NextParse]_vars

\* the last loop iteration looked a flag token up and found its spec
FlagRecognized == flagStep # None /\ flagStep[1].argDef # None

\* the flag token of the last loop iteration, its spec, and the token after it
LastFlag == tokens[flagStep[1].index + 1]
LastArgDef == flagStep[1].argDef[1]
HasNextToken == flagStep[1].index + 2 <= Len(tokens)
NextToken == tokens[flagStep[1].index + 2]

RequiresValueThrown ==
    /\ pc = "thrown"
    /\ error # None
    /\ error[1].message = "Argument requires a value."

C7_FlagBeforeFlag ==
    (FlagRecognized /\ HasNextToken /\ StartsWith(NextToken, <<"-">>)) =>
        IF LastArgDef.defaultValue # None
        THEN /\ flagStep[1].outcome = "default"
             /\ i = flagStep[1].index + 1
             /\ LastArgDef.argKey \in DOMAIN parsedArgs
             /\ parsedArgs[LastArgDef.argKey] = LastArgDef.defaultValue[1]
             /\ ~RequiresValueThrown
        ELSE /\ flagStep[1].outcome = "throw"
             /\ RequiresValueThrown

\* the flag before a flag got its default and the call went on
C7_Witness ==
    /\ FlagRecognized /\ HasNextToken /\ StartsWith(NextToken, <<"-">>)
    /\ LastArgDef.defaultValue # None
    /\ flagStep[1].outcome = "default"
    /\ pc = "tokens"
    /\ i = flagStep[1].index + 1

\* the words of s as written, quotes kept: s cut at the spaces outside quotes
RECURSIVE WordsAsWritten(_, _, _)
WordsAsWritten(s, word, inQuote) ==
    IF s = <<>> THEN IF word = <<>> THEN <<>> ELSE <<word>>
    ELSE IF Head(s) = " " /\ ~inQuote
         THEN (IF word = <<>> THEN <<>> ELSE <<word>>)
                  \o WordsAsWritten(Tail(s), <<>>, inQuote)
         ELSE WordsAsWritten(Tail(s), Append(word, Head(s)),
                             IF Head(s) = "\"" THEN ~inQuote ELSE inQuote)

\* the word written after the flag of the last iteration is a value wrapped
\* in double quotes that begins with a dash
QuotedDashValueFollows ==
    LET written == WordsAsWritten(argsString, <<>>, FALSE)
        n == flagStep[1].index + 2
    IN  /\ Len(written) = Len(tokens)
        /\ n <= Len(written)
        /\ Len(written[n]) >= 3
        /\ written[n][1] = "\""
        /\ written[n][Len(written[n])] = "\""
        /\ written[n][2] = "-"

\* C8: a value that begins with "-" and is wrapped in double quotes in the
\* argument string is the value of the flag before it: consumed and stored
\* under that flag's argKey, with or without a defaultValue.
C8_QuotedDashIsValue ==
    (FlagRecognized /\ QuotedDashValueFollows) =>
        /\ flagStep[1].outcome = "value"
        /\ i = flagStep[1].index + 2
        /\ LastArgDef.argKey \in DOMAIN parsedArgs
        /\ parsedArgs[LastArgDef.argKey] =
               SubSeq(WordsAsWritten(argsString, <<>>, FALSE)[flagStep[1].index + 2],
                      2, Len(NextToken) + 1)

\* C9 as claimed: a recognized flag that is the last token takes the value
\* branch (two tokens consumed) and does not fail; "requires a value" arises
\* only when the next token looks like a flag and the spec has no defaultValue.
C9_LastFlagTakesValueBranch ==
    /\ (FlagRecognized /\ ~HasNextToken) =>
          /\ flagStep[1].outcome = "value"
          /\ i = flagStep[1].index + 2
          /\ ~RequiresValueThrown
    /\ RequiresValueThrown =>
          /\ FlagRecognized
          /\ HasNextToken
          /\ StartsWith(NextToken, <<"-">>)
          /\ LastArgDef.defaultValue = None

\* C9 amended: a recognized flag that is the last token gets its spec's
\* defaultValue (one token consumed) if the spec has one and fails with
\* "requires a value" otherwise; "requires a value" arises only when the spec
\* has no defaultValue and the next token is missing or starts with "-".
C9_LastFlagDefaultOrThrow ==
    /\ (FlagRecognized /\ ~HasNextToken) =>
          IF LastArgDef.defaultValue # None
          THEN /\ flagStep[1].outcome = "default"
               /\ i = flagStep[1].index + 1
               /\ LastArgDef.argKey \in DOMAIN parsedArgs
               /\ parsedArgs[LastArgDef.argKey] = LastArgDef.defaultValue[1]
               /\ ~RequiresValueThrown
          ELSE /\ flagStep[1].outcome = "throw"
               /\ RequiresValueThrown
    /\ RequiresValueThrown =>
          /\ FlagRecognized
          /\ LastArgDef.defaultValue = None
          /\ ~HasNextToken \/ StartsWith(NextToken, <<"-">>)

\* a last flag without default made the call fail
C9_Witness ==
    /\ FlagRecognized
    /\ ~HasNextToken
    /\ LastArgDef.defaultValue = None
    /\ RequiresValueThrown

\* C10: the name of a flag token (its leading dashes stripped) resolves so: a
\* double-dash token matches only the spec whose argKey is the name; a
\* single-dash token the spec whose argKeyAlias is the name, or else the spec
\* whose argKey is the name; any other token fails with "Unknown argument";
\* names are compared exactly and the value is stored under the argKey.
C10_FlagLookup ==
    (flagStep # None /\ flagStep[1].outcome # "positional") =>
        LET name == StripDashes(LastFlag)
            double == StartsWith(LastFlag, <<"-", "-">>)
            byKey == {n \in 1..Len(commandArgs) : commandArgs[n].argKey = name}
            byAlias == {n \in 1..Len(commandArgs) :
                           commandArgs[n].argKeyAlias = Some(name)}
            expected == IF double THEN byKey
                        ELSE IF byAlias # {} THEN byAlias ELSE byKey
        IN  IF expected = {}
            THEN /\ flagStep[1].argDef = None
                 /\ pc = "thrown"
                 /\ error # None
                 /\ error[1].message = "Unknown argument: "
            ELSE /\ flagStep[1].argDef # None
                 /\ \E n \in expected : LastArgDef = commandArgs[n]
                 /\ flagStep[1].outcome \in {"value", "default"} =>
                       /\ LastArgDef.argKey \in DOMAIN parsedArgs
                       /\ \A k \in DOMAIN parsedArgs :
                             \E n \in 1..Len(commandArgs) :
                                 commandArgs[n].argKey = k

-----------------------------------------------------------------------------
(* The entry points on every table they can build *)

ChatTexts ==
    {ChatRegisterPrefix \o text : text \in RegistrationTexts}
        \cup {ChatDeletePrefix \o key : key \in StoreKeys}
        \cup {<<"/", "c", "o", "m", "m", "a", "n", "d", " ", "l", "i", "s", "t">>}

\* what the dashboard's form posts: its rows start with empty fields
SaveArgSpecs ==
    {CommandArg(<<"a">>, Some(<<>>), FALSE, None, None),
     CommandArg(<<>>, Some(<<>>), FALSE, None, None),
     CommandArg(<<"b">>, Some(<<"a">>), FALSE, None, None)}
SaveCommands ==
    {CommandDef(key, None, urlCall, args) :
        key \in StoreKeys \cup {<<>>}, urlCall \in {ValidUrl, <<"x">>},
        args \in SeqsUpTo(SaveArgSpecs, MaxArgs)}
OldKeys == {None} \cup {Some(key) : key \in StoreKeys}

ChatCommandMessage ==
    /\ pc = "serve"
    /\ \E text \in ChatTexts : HandleCommandMessage(text)
    /\ UNCHANGED <<pc, matchVars, parseVars, error>>
    /\ UNCHANGED chatVars
    /\ UNCHANGED httpVars

PostRegisterText ==
    /\ pc = "serve"
    /\ \E commandText \in RegistrationTexts : RegisterText(commandText)
    /\ UNCHANGED <<pc, matchVars, parseVars, error>>
    /\ UNCHANGED chatVars
    /\ UNCHANGED httpVars

PostSave ==
    /\ pc = "serve"
    /\ \E oldKey \in OldKeys, command \in SaveCommands : SaveCommand(oldKey, command)
    /\ UNCHANGED <<pc, matchVars, parseVars, error>>
    /\ UNCHANGED chatVars
    /\ UNCHANGED httpVars

DeleteRoute ==
    /\ pc = "serve"
    /\ \E key \in StoreKeys : DeleteCommand(key)
    /\ UNCHANGED <<pc, matchVars, parseVars, error>>
    /\ UNCHANGED chatVars
    /\ UNCHANGED httpVars

Init ==
    /\ commands = {}
    /\ pc = "serve"
    /\ input = <<>>
    /\ matchResult = None
    /\ argsString = <<>>
    /\ commandArgs = <<>>
    /\ tokens = <<>>
    /\ i = 0
    /\ parsedArgs = EmptyArgs
    /\ flagStep = None
    /\ error = None
    /\ request = Request("none", None, None)
    /\ response = Accepted
    /\ msgText = <<>>
    /\ posts = <<>>
    /\ replies = <<>>
    /\ lastOp = NoOps
    /\ httpRequest = None
    /\ httpResponse = None

Next == ChatCommandMessage \/ PostRegisterText \/ PostSave \/ DeleteRoute

Spec == Init /\ [][Next]_vars

\* the places of a definition's arguments that hold a name: every argKey and
\* every argKeyAlias that is present
NameSlots(args) ==
    {<<n, "argKey">> : n \in 1..Len(args)}
        \cup {<<n, "argKeyAlias">> : n \in {m \in 1..Len(args) :
                                              args[m].argKeyAlias # None}}

SlotName(args, slot) ==
    IF slot[2] = "argKey" THEN args[slot[1]].argKey
    ELSE args[slot[1]].argKeyAlias[1]

\* no two places hold the same name
NamesDistinct(args) ==
    \A x, y \in NameSlots(args) :
        x # y => SlotName(args, x) # SlotName(args, y)

\* no two places hold the same name, the empty aliases left aside
NamesDistinctButEmptyAliases(args) ==
    \A x, y \in NameSlots(args) :
        (/\ x # y
         /\ x[2] = "argKeyAlias" => SlotName(args, x) # <<>>
         /\ y[2] = "argKeyAlias" => SlotName(args, y) # <<>>)
            => SlotName(args, x) # SlotName(args, y)

DuplicateThrown ==
    /\ ~response.ok
    /\ response.error # None
    /\ response.error[1].message \in {"Duplicate arg key: ", "Duplicate arg alias: "}

\* C2 as claimed: every command of the table has no duplicate among its
\* arguments' argKey and argKeyAlias values, and register throws and writes
\* nothing when a definition has an argKey or alias equal to an earlier one.
C2_NoDuplicateNames ==
    [][/\ \A r \in commands' : NamesDistinct(r.args)
       /\ (request'.cmd # None /\ ~NamesDistinct(request'.cmd[1].args)) =>
              /\ DuplicateThrown'
              /\ commands' \subseteq commands
    ]_vars

\* C2 amended: every command of the table has no duplicate among its
\* arguments' argKey values and non-empty argKeyAlias values, and register
\* throws and writes nothing when a definition has an argKey or a non-empty
\* alias equal to an earlier argKey or non-empty alias.
C2_NoDuplicateNonEmptyNames ==
    [][/\ \A r \in commands' : NamesDistinctButEmptyAliases(r.args)
       /\ (request'.cmd # None
               /\ ~NamesDistinctButEmptyAliases(request'.cmd[1].args)) =>
              /\ DuplicateThrown'
              /\ commands' \subseteq commands
    ]_vars

\* a definition with an alias equal to an earlier argKey was rejected while
\* the table holds a command with two empty aliases
C2_Witness ==
    /\ request.cmd # None
    /\ \E m, n \in 1..Len(request.cmd[1].args) :
          /\ m < n
          /\ request.cmd[1].args[n].argKeyAlias =
                 Some(request.cmd[1].args[m].argKey)
          /\ request.cmd[1].args[m].argKey # <<>>
    /\ DuplicateThrown
    /\ \E r \in commands :
          \E m, n \in 1..Len(r.args) :
              m # n /\ r.args[m].argKeyAlias = Some(<<>>)
                    /\ r.args[n].argKeyAlias = Some(<<>>)

RegistrationEntries == {"chat register", "register-text", "save"}

\* C3: whenever a registration request is rejected, by any entry point, the
\* table after the request is the table before it.
C3_RejectedLeavesTable ==
    [][(request'.entry \in RegistrationEntries /\ ~response'.ok) =>
           commands' = commands
    ]_vars

\* C4: every command of the table has a urlCall that is a valid absolute URL
\* (a registration with another urlCall is rejected by every entry point).
C4_StoredUrlValid == \A r \in commands : IsUrl(r.urlCall)

\* C5: after register(cmd) succeeds the table holds exactly one definition
\* under cmd.key, equal to cmd, and the definitions under every other key are
\* those it held when register was called (the table of the request, less the
\* oldKey a save request deleted first); the table never holds two
\* definitions under one key.
C5_Upsert ==
    [][/\ \A r1, r2 \in commands' : r1.key = r2.key => r1 = r2
       /\ (request'.cmd # None /\ response'.ok) =>
              LET cmd == request'.cmd[1]
                  before == IF request'.oldKey # None
                            THEN {r \in commands : r.key # request'.oldKey[1]}
                            ELSE commands
              IN  /\ {r \in commands' : r.key = cmd.key} = {cmd}
                  /\ {r \in commands' : r.key # cmd.key} =
                         {r \in before : r.key # cmd.key}
    ]_vars

\* a registration succeeded and its definition stands in the table beside a
\* definition under another key
C5_Witness ==
    /\ request.cmd # None
    /\ response.ok
    /\ request.cmd[1] \in commands
    /\ \E r \in commands : r.key # request.cmd[1].key

-----------------------------------------------------------------------------
(* the tokenizer of parseArgs on every short string of letters, spaces,     *)
(* dashes and double quotes                                                  *)

TokenizerInputs == StringsUpTo({"a", "-", " ", "\""}, MaxInputLen)
TokenizerArgLists ==
    {<<>>, <<CommandArg(<<"a">>, None, FALSE, Some(<<"d">>), None)>>}

InitTokenize ==
    /\ commands = {}
    /\ pc = "parseArgs"
    /\ argsString \in TokenizerInputs
    /\ commandArgs \in TokenizerArgLists
    /\ input = <<>>
    /\ matchResult = None
    /\ tokens = <<>>
    /\ i = 0
    /\ parsedArgs = EmptyArgs
    /\ flagStep = None
    /\ error = None
    /\ request = None
    /\ response = None
    /\ msgText = <<>>
    /\ posts = <<>>
    /\ replies = <<>>
    /\ lastOp = NoOps
    /\ httpRequest = None
    /\ httpResponse = None

SpecTokenize == InitTokenize /\ [][NextParse]_vars

\* the reference scan: the tokens of the rest s of the input, given the
\* buffer and the in-quote state reached so far
RECURSIVE ReferenceTokens(_, _, _)
ReferenceTokens(s, buffer, inQuote) ==
    IF s = <<>> THEN (IF buffer = <<>> THEN <<>> ELSE <<buffer>>)
    ELSE IF Head(s) = "\"" THEN ReferenceTokens(Tail(s), buffer, ~inQuote)
    ELSE IF Head(s) = " " /\ ~inQuote
         THEN (IF buffer = <<>> THEN <<>> ELSE <<buffer>>)
              \o ReferenceTokens(Tail(s), <<>>, FALSE)
    ELSE ReferenceTokens(Tail(s), Append(buffer, Head(s)), inQuote)

\* the positions of the double quotes of s
QuotePositions(s) == {p \in 1..Len(s) : s[p] = "\""}

\* s has an odd number of double quotes: the last one is never closed
Unbalanced(s) == Cardinality(QuotePositions(s)) % 2 = 1

\* the text after the last double quote of s
AfterLastQuote(s) ==
    LET last == CHOOSE p \in QuotePositions(s) :
                    \A q \in QuotePositions(s) : q <= p
    IN  SubSeq(s, last + 1, Len(s))

\* t ends with r
EndsWith(t, r) ==
    Len(r) <= Len(t) /\ SubSeq(t, Len(t) - Len(r) + 1, Len(t)) = r

\* C13: the tokenizer step of parseArgs never fails and leaves in tokens the
\* sequence of the reference scan (a double quote toggles the in-quote state
\* and is dropped, a space outside quotes ends the token, anything else is
\* appended, a non-empty buffer is flushed at the end); the empty input gives
\* no token, and after an unclosed quote the rest of the input, spaces
\* included, is the end of the last token.
C13_TokenizerReference ==
    [][pc = "parseArgs" =>
          /\ pc' = "tokens"
          /\ error' = None
          /\ tokens' = ReferenceTokens(argsString, <<>>, FALSE)
          /\ \A n \in 1..Len(tokens') :
                 /\ tokens'[n] # <<>>
                 /\ \A k \in 1..Len(tokens'[n]) : tokens'[n][k] # "\""
          /\ (argsString = <<>> => tokens' = <<>>)
          /\ (Unbalanced(argsString) /\ AfterLastQuote(argsString) # <<>> =>
                 /\ tokens' # <<>>
                 /\ EndsWith(tokens'[Len(tokens')], AfterLastQuote(argsString)))
      ]_vars

\* an unclosed quote followed by text with a space has been tokenized
C13_Witness ==
    /\ pc = "tokens"
    /\ Unbalanced(argsString)
    /\ Len(tokens) = 2
    /\ \E k \in 1..Len(tokens[2]) : tokens[2][k] = " "

-----------------------------------------------------------------------------
(* repeated flags in parseArgs *)

\* the last loop iteration gave the flag a value or its default
FlagAssigned ==
    FlagRecognized /\ flagStep[1].outcome \in {"value", "default"}

\* C19: a flag whose argKey already has a value is handled as a first
\* occurrence is: with a following token that does not start with "-" it
\* takes that token, with none and a defaultValue it takes the defaultValue,
\* and in both cases the new value replaces the old one while every other
\* key keeps its value; the final step of the call changes no key a flag has
\* set.  So the result holds the outcome of each argument's last occurrence.
C19_LastOccurrenceWins ==
    [][/\ (pc = "tokens" /\ i < Len(tokens) /\ FlagRecognized'
            /\ flagStep'[1].index = i
            /\ flagStep'[1].argDef[1].argKey \in DOMAIN parsedArgs) =>
           LET argDef == flagStep'[1].argDef[1]
               hasNext == i + 2 <= Len(tokens)
               next == tokens[i + 2]
           IN  /\ (hasNext /\ ~StartsWith(next, <<"-">>)) =>
                      /\ pc' = "tokens"
                      /\ parsedArgs' = [parsedArgs EXCEPT ![argDef.argKey] = next]
                      /\ i' = i + 2
               /\ ((~hasNext \/ StartsWith(next, <<"-">>))
                       /\ argDef.defaultValue # None) =>
                      /\ pc' = "tokens"
                      /\ parsedArgs' = [parsedArgs EXCEPT
                                           ![argDef.argKey] = argDef.defaultValue[1]]
                      /\ i' = i + 1
               /\ pc' = "thrown" =>
                      /\ argDef.defaultValue = None
                      /\ ~hasNext \/ StartsWith(next, <<"-">>)
       /\ (pc = "tokens" /\ pc' = "returned") =>
              \A k \in DOMAIN parsedArgs : parsedArgs'[k] = parsedArgs[k]
      ]_vars

\* an argument given with a value and then, by key or alias, without one: the
\* defaultValue has replaced the value
C19_Witness ==
    /\ pc = "returned"
    /\ Len(tokens) = 3
    /\ FlagAssigned
    /\ flagStep[1].index = 2
    /\ flagStep[1].outcome = "default"
    /\ ~StartsWith(tokens[2], <<"-">>)
    /\ FindArgDef(commandArgs, StartsWith(tokens[1], <<"-", "-">>),
                  StripDashes(tokens[1])) = flagStep[1].argDef
    /\ parsedArgs[LastArgDef.argKey] = LastArgDef.defaultValue[1]
    /\ parsedArgs[LastArgDef.argKey] # tokens[2]

-----------------------------------------------------------------------------
(* parseArgs on argument strings with empty double-quoted values *)

EmptyQuoted == <<"\"", "\"">>

EmptyValueWords ==
    {<<"-", "-", "a">>, <<"-", "b">>, <<"-", "-", "c">>, EmptyQuoted, <<"x">>,
     <<"\"", "\"", "x">>, <<"\"", " ", "\"">>}
EmptyValueStrings == {JoinWords(ws) : ws \in SeqsUpTo(EmptyValueWords, MaxWords)}

\* specs with and without a defaultValue, the empty string among the defaults
EmptyValueSpecs ==
    {CommandArg(<<"a">>, Some(<<"b">>), FALSE, d, None) :
        d \in {None, Some(<<>>), Some(<<"d">>)}}
        \cup {CommandArg(<<"c">>, None, TRUE, d, None) : d \in {None, Some(<<>>)}}
EmptyValueArgLists ==
    {args \in SeqsUpTo(EmptyValueSpecs, MaxArgs) : DuplicateArg(args, 1, {}) = None}

InitEmptyValue ==
    /\ commands = {}
    /\ pc = "parseArgs"
    /\ argsString \in EmptyValueStrings
    /\ commandArgs \in EmptyValueArgLists
    /\ input = <<>>
    /\ matchResult = None
    /\ tokens = <<>>
    /\ i = 0
    /\ parsedArgs = EmptyArgs
    /\ flagStep = None
    /\ error = None
    /\ request = None
    /\ response = None
    /\ msgText = <<>>
    /\ posts = <<>>
    /\ replies = <<>>
    /\ lastOp = NoOps
    /\ httpRequest = None
    /\ httpResponse = None

SpecEmptyValue == InitEmptyValue /\ [][NextParse]_vars

\* the word without its double quotes
Unquoted(word) == SelectSeq(word, LAMBDA char : char # "\"")

\* the words of the argument string as written, the ones that are nothing
\* but double quotes left out
WrittenNonEmpty ==
    SelectSeq(WordsAsWritten(argsString, <<>>, FALSE),
              LAMBDA word : Unquoted(word) # <<>>)

\* the last word written in the argument string is an empty quoted value
EmptyValueWrittenLast ==
    LET written == WordsAsWritten(argsString, <<>>, FALSE)
    IN  written # <<>> /\ written[Len(written)] = EmptyQuoted

\* C21: every value parseArgs takes from the tokens is a non-empty string.
\* An empty double-quoted value gives no token: the tokens are those of the
\* argument string with such words left out, so a flag followed by one at
\* the end of the string is resolved as a flag with nothing after it (its
\* defaultValue if the spec has one, else "requires a value"), and an empty
\* string is in the result only under the argKey of a spec whose
\* defaultValue is the empty string.
C21_ValuesFromTokensNonEmpty ==
    /\ pc # "parseArgs" =>
          /\ \A n \in 1..Len(tokens) : tokens[n] # <<>>
          /\ tokens = ReferenceTokens(JoinWords(WrittenNonEmpty), <<>>, FALSE)
          /\ Len(tokens) = Len(WrittenNonEmpty)
    /\ (FlagRecognized /\ flagStep[1].outcome = "value") =>
          /\ HasNextToken
          /\ NextToken # <<>>
          /\ i = flagStep[1].index + 2
          /\ parsedArgs[LastArgDef.argKey] = NextToken
    /\ (FlagRecognized /\ ~HasNextToken /\ EmptyValueWrittenLast) =>
          IF LastArgDef.defaultValue # None
          THEN /\ flagStep[1].outcome = "default"
               /\ parsedArgs[LastArgDef.argKey] = LastArgDef.defaultValue[1]
          ELSE /\ flagStep[1].outcome = "throw"
               /\ RequiresValueThrown
    /\ \A k \in DOMAIN parsedArgs :
          parsedArgs[k] = <<>> =>
              \E n \in 1..Len(commandArgs) :
                  /\ commandArgs[n].argKey = k
                  /\ commandArgs[n].defaultValue = Some(<<>>)

\* a flag with an empty quoted value written after it, at the end of the
\* string, got the empty defaultValue of its spec and the call returned
C21_Witness ==
    /\ pc = "returned"
    /\ EmptyValueWrittenLast
    /\ FlagRecognized
    /\ ~HasNextToken
    /\ flagStep[1].outcome = "default"
    /\ LastArgDef.defaultValue = Some(<<>>)
    /\ parsedArgs[LastArgDef.argKey] = <<>>

-----------------------------------------------------------------------------
(* the argKeys of the table *)

\* C15: every argument of every command of the table has a non-empty argKey
\* (a registration with an argument whose argKey is the empty string is
\* rejected and never stored).
C15_ArgKeysNonEmpty ==
    \A r \in commands : \A n \in 1..Len(r.args) : r.args[n].argKey # <<>>

-----------------------------------------------------------------------------
(* registration by text, in chat and through the form, on texts whose keys  *)
(* have spaces around and inside and whose flags and blocks vary; input is  *)
(* what the entry point hands to parseRegistrationInput                     *)

ChatRegistration ==
    /\ pc = "serve"
    /\ \E regInput \in TextInputs :
          LET text == ChatRegisterPrefix \o regInput
          IN  /\ HandleCommandMessage(text)
              /\ input' = IF StartsWith(CommandSub(text), RegisterPrefix)
                          THEN ChatRegistrationInput(text)
                          ELSE input
    /\ UNCHANGED <<pc, matchResult, parseVars, error>>
    /\ UNCHANGED chatVars
    /\ UNCHANGED httpVars

FormRegistration ==
    /\ pc = "serve"
    /\ \E commandText \in TextInputs :
          /\ RegisterText(commandText)
          /\ input' = FormRegistrationInput(commandText)
    /\ UNCHANGED <<pc, matchResult, parseVars, error>>
    /\ UNCHANGED chatVars
    /\ UNCHANGED httpVars

NextText == ChatRegistration \/ FormRegistration \/ DeleteRoute

SpecText == Init /\ [][NextText]_vars

TextEntries == {"chat register", "register-text"}

\* the 1-based position of the first "--" or "[" of s, 0 if there is none
FirstMarker(s) ==
    IF \E p \in 1..Len(s) : HasAt(s, p, <<"-", "-">>) \/ HasAt(s, p, <<"[">>)
    THEN CHOOSE p \in 1..Len(s) :
             /\ HasAt(s, p, <<"-", "-">>) \/ HasAt(s, p, <<"[">>)
             /\ \A q \in 1..(p - 1) :
                    ~(HasAt(s, q, <<"-", "-">>) \/ HasAt(s, q, <<"[">>))
    ELSE 0

\* the text before the first marker of s
BeforeFirstMarker(s) == SubSeq(s, 1, FirstMarker(s) - 1)

UrlCallFlag == <<"-", "-", "u", "r", "l", "c", "a", "l", "l">>

\* s has no --urlCall flag (in any case of the letters, followed by a colon
\* or white space), or nothing but colons and white space between the first
\* one and the end of s, a "[" or the next "--"
NoUrlCallValue(s) ==
    LET folded == LowerAll(s)
        flags == {p \in 1..Len(s) :
                     /\ HasAt(folded, p, UrlCallFlag)
                     /\ p + Len(UrlCallFlag) <= Len(s)
                     /\ IsSeparator(s[p + Len(UrlCallFlag)])}
    IN  \/ flags = {}
        \/ LET value == SkipSeparators(s, Min(flags) + Len(UrlCallFlag))
           IN  value > Len(s) \/ s[value] = "[" \/ HasAt(s, value, <<"-", "-">>)

\* C14: a registration by text (chat or form) whose input has neither "--"
\* nor "[", or only white space before the first of them, or no --urlCall
\* value, is rejected by parseRegistrationInput and leaves the table as it
\* was; when parseRegistrationInput succeeds the key of the command is the
\* text before the first marker without the white space at its two ends.
C14_TextRegistrationFailures ==
    [][request'.entry \in TextEntries =>
          /\ (\/ FirstMarker(input') = 0
               \/ AllSpaces(BeforeFirstMarker(input'))
               \/ NoUrlCallValue(input')) =>
                  /\ ~response'.ok
                  /\ request'.cmd = None
                  /\ commands' = commands
          /\ request'.cmd # None =>
                  /\ FirstMarker(input') > 0
                  /\ IsTrimOf(request'.cmd[1].key, BeforeFirstMarker(input'))
                  /\ request'.cmd[1].key # <<>>
      ]_vars

\* the contents of the bracketed blocks of s, from left to right
RECURSIVE BlocksOf(_)
BlocksOf(s) ==
    IF \E p \in 1..Len(s) : s[p] = "[" /\ \E q \in (p + 1)..Len(s) : s[q] = "]"
    THEN LET open == CHOOSE p \in 1..Len(s) :
                        /\ s[p] = "["
                        /\ \A r \in 1..(p - 1) : s[r] # "["
             close == CHOOSE q \in (open + 1)..Len(s) :
                         /\ s[q] = "]"
                         /\ \A r \in (open + 1)..(q - 1) : s[r] # "]"
         IN  <<SubSeq(s, open + 1, close - 1)>> \o BlocksOf(Slice(s, close))
    ELSE <<>>

\* the fragments of a block: its pieces between the "--", the blank ones
\* left out
FragmentsOf(block) ==
    SelectSeq(SplitOnDashes(block, <<>>), LAMBDA f : ~AllSpaces(f))

\* the position of the first colon or white space of the fragment f,
\* Len(f) + 1 if there is none
FirstBoundary(f) ==
    IF \E p \in 1..Len(f) : IsSeparator(f[p])
    THEN CHOOSE p \in 1..Len(f) :
             IsSeparator(f[p]) /\ \A q \in 1..(p - 1) : ~IsSeparator(f[q])
    ELSE Len(f) + 1

FragmentName(f) == SubSeq(f, 1, FirstBoundary(f) - 1)

\* the value of the fragment f as written: the text after the boundary that
\* follows the name, trimmed, without one trailing comma
ValueAsWritten(f) ==
    LET v == Trim(SubSeq(f, SkipSeparators(f, FirstBoundary(f)), Len(f)))
    IN  IF v # <<>> /\ v[Len(v)] = "," THEN SubSeq(v, 1, Len(v) - 1) ELSE v

\* C18: in a command parsed from a registration text, the defaultValue and
\* the description of the n-th argument are the values as written of the
\* defaultValue and description fragments of the n-th block (the text after
\* the first colon-or-whitespace boundary that follows the flag name,
\* trimmed, without one trailing comma).
C18_BlockValuesAsWritten ==
    (request.entry \in TextEntries /\ request.cmd # None) =>
        LET blocks == BlocksOf(input)
            args == request.cmd[1].args
        IN  /\ Len(args) = Len(blocks)
            /\ \A n \in 1..Len(blocks) :
                   LET fragments == FragmentsOf(blocks[n])
                   IN  \A m \in 1..Len(fragments) :
                          /\ FragmentName(fragments[m]) = <<"d", "e", "f", "a", "u", "l", "t", "V", "a", "l", "u", "e">> =>
                                 args[n].defaultValue =
                                     Some(ValueAsWritten(fragments[m]))
                          /\ FragmentName(fragments[m]) = <<"d", "e", "s", "c", "r", "i", "p", "t", "i", "o", "n">> =>
                                 args[n].description =
                                     Some(ValueAsWritten(fragments[m]))

-----------------------------------------------------------------------------
(* handleMessage: an inbound chat message, from its text to the replies and *)
(* the webhook POST                                                          *)

Reply(kind, detail) == [kind |-> kind, detail |-> detail]

HelpContent == <<"h", "e", "l", "p">>
QrContent == <<"q", "r">>
ListSub == <<"l", "i", "s", "t">>

\* content.startsWith('command ')
IsCommandContent(content) == StartsWith(content, CommandPrefix)

\* a handler without the help branch
IsHelpNever(content) == FALSE

\* content === 'help'
IsHelp(content) == content = HelpContent

\* content === 'qr'
IsQr(content) == content = QrContent

\* the reply of the /command branch: what the branch taken replies, or the
\* reply of the catch when parseRegistrationInput or register has thrown
CommandReply(sub, req, resp) ==
    IF req.entry = "chat register"
    THEN IF resp.ok THEN Reply("registered", req.cmd[1].key)
         ELSE Reply("error", resp.error[1].message)
    ELSE IF req.entry = "chat delete" THEN Reply("deleted", <<>>)
    ELSE IF sub = ListSub THEN Reply("list", <<>>)
    ELSE Reply("usage", <<>>)

\* the locals of handleMessage, findBestMatch and parseArgs are gone when
\* handleMessage returns
ResetLocals ==
    /\ input' = <<>>
    /\ matchResult' = None
    /\ argsString' = <<>>
    /\ commandArgs' = <<>>
    /\ tokens' = <<>>
    /\ i' = 0
    /\ parsedArgs' = EmptyArgs
    /\ flagStep' = None
    /\ error' = None

\* handleMessage up to the call of findBestMatch: the message is ignored,
\* served by a built-in branch, or handed to the custom commands
HandleMessage(t) ==
    LET content == MessageContent(t)
    IN  /\ pc = "serve"
        /\ msgText' = t
        /\ posts' = <<>>
        /\ IF ~StartsWith(t, <<"/">>)
           THEN /\ replies' = <<>>
                /\ UNCHANGED <<commands, pc, input, storeVars>>
           ELSE IF IsCommandContent(content)
           THEN /\ HandleCommandMessage(t)
                /\ replies' = <<CommandReply(CommandSub(t), request', response')>>
                /\ UNCHANGED <<pc, input>>
           ELSE IF IsHelp(content)
           THEN /\ replies' = <<Reply("help", <<>>)>>
                /\ UNCHANGED <<commands, pc, input, storeVars>>
           ELSE IF IsQr(content)
           THEN /\ replies' = <<Reply("qr", <<>>)>>
                /\ UNCHANGED <<commands, pc, input, storeVars>>
           ELSE /\ input' = content
                /\ pc' = "findBestMatch"
                /\ replies' = <<>>
                /\ UNCHANGED <<commands, storeVars>>
        /\ UNCHANGED <<matchResult, parseVars, error, httpVars>>

\* after findBestMatch: no match is answered "Unknown command", a match goes
\* on to parseArgs(argsString, command.args)
DispatchMatch ==
    /\ pc = "matched"
    /\ IF matchResult = None
       THEN /\ replies' = Append(replies, Reply("unknown", <<>>))
            /\ pc' = "serve"
            /\ ResetLocals
       ELSE /\ argsString' = matchResult[1].argsString
            /\ commandArgs' = matchResult[1].command.args
            /\ pc' = "parseArgs"
            /\ UNCHANGED <<input, matchResult, tokens, i, parsedArgs, flagStep,
                           error, replies>>
    /\ UNCHANGED <<commands, storeVars, msgText, posts, lastOp, httpVars>>

\* a catch that replies nothing
CatchReplySilent(err) == <<>>

\* the catch of handleMessage: the reply with err.message
CatchReply(err) == <<Reply("error", err.message)>>

\* parseArgs has thrown
CatchError ==
    /\ pc = "thrown"
    /\ replies' = replies \o CatchReply(error[1])
    /\ pc' = "serve"
    /\ ResetLocals
    /\ UNCHANGED <<commands, storeVars, msgText, posts, lastOp, httpVars>>

\* what fetch may do: a 2xx response, another status, or a throw
FetchOutcomes == {"ok", "status", "network"}

\* a fetch that is tried again after a network error
FetchPostsRetried(command, args, outcome) ==
    LET post == [url |-> command.urlCall, body |-> args, outcome |-> outcome]
    IN  IF ~IsUrl(command.urlCall) THEN <<>>
        ELSE IF outcome = "network" THEN <<post, post>>
        ELSE <<post>>

\* the POSTs fetch(command.urlCall, ...) sends: none when the URL does not
\* parse (fetch throws before it sends), else one
FetchPosts(command, args, outcome) ==
    IF ~IsUrl(command.urlCall) THEN <<>>
    ELSE <<[url |-> command.urlCall, body |-> args, outcome |-> outcome]>>

\* the reply after the fetch
FetchReply(command, outcome) ==
    IF ~IsUrl(command.urlCall) \/ outcome = "network"
    THEN Reply("network error", <<>>)
    ELSE IF outcome = "ok" THEN Reply("status ok", <<>>)
    ELSE Reply("status failed", <<>>)

\* parseArgs has returned: the "Executing" reply, the POST and the reply
\* with its outcome
ExecuteCommand ==
    /\ pc = "returned"
    /\ \E outcome \in FetchOutcomes :
          LET command == matchResult[1].command
          IN  /\ posts' = posts \o FetchPosts(command, parsedArgs, outcome)
              /\ replies' = replies \o <<Reply("executing", command.key),
                                         FetchReply(command, outcome)>>
    /\ pc' = "serve"
    /\ ResetLocals
    /\ UNCHANGED <<commands, storeVars, msgText, lastOp, httpVars>>

-----------------------------------------------------------------------------
(* The chat: registrations, deletions and other messages, each handled to   *)
(* its end before the next                                                   *)

ChatKeys == {reg.key : reg \in ChatRegistrations}

ChatMessages ==
    {<<"/", "a">>,
     <<"/", "a", " ", "-", "-", "a", " ", "b">>,
     <<"/", "a", " ", "b">>,
     <<"/", "a", " ", "-", "-", "c">>,
     <<"/", "a", " ", "-", "-", "a">>,
     <<"/", "a", " ", "b", " ", "-", "-", "a", " ", "b">>,
     <<"/", "h", "e", "l", "p">>,
     <<"/", "h", "e", "l", "p", " ", "x">>,
     <<"/", "q", "r">>,
     <<"/", "b">>,
     <<"a">>,
     <<"/", " ", "a", " ">>,
     <<"/", "c", "o", "m", "m", "a", "n", "d", " ", "l", "i", "s", "t">>,
     <<"/", "c", "o", "m", "m", "a", "n", "d", " ", "x">>,
     <<"/", "c", "o", "m", "m", "a", "n", "d">>}

\* lastOp with the operation op on key
SetOp(ops, key, op) ==
    [k \in DOMAIN ops \cup {key} |-> IF k = key THEN op ELSE ops[k]]

ReceiveRegister ==
    \E reg \in ChatRegistrations :
        /\ HandleMessage(ChatRegisterPrefix \o reg.key \o reg.tail)
        /\ lastOp' = IF response'.ok THEN SetOp(lastOp, reg.key, "registered")
                     ELSE lastOp

ReceiveDelete ==
    \E key \in ChatKeys :
        /\ HandleMessage(ChatDeletePrefix \o key)
        /\ lastOp' = SetOp(lastOp, key, "deleted")

ReceiveMessage ==
    /\ \E t \in ChatMessages : HandleMessage(t)
    /\ UNCHANGED lastOp

NextChat ==
    \/ ReceiveRegister
    \/ ReceiveDelete
    \/ ReceiveMessage
    \/ FindBestMatch
    \/ DispatchMatch
    \/ ParseArgsTokenize
    \/ ParseArgsToken
    \/ ParseArgsFill
    \/ CatchError
    \/ ExecuteCommand

SpecChat == Init /\ [][NextChat]_vars

-----------------------------------------------------------------------------
(* what a chat message may cause *)

InvocationSteps ==
    {"findBestMatch", "matched", "parseArgs", "tokens", "thrown", "returned"}

\* C11: a webhook POST is sent only by the step that follows a successful
\* return of parseArgs for a matched command, and it carries the arguments
\* parseArgs returned to the urlCall of that command; when no command
\* matches, or parseArgs throws (unknown flag, missing value, positional
\* token, missing required argument), the handling ends with no POST and a
\* reply that carries the failure ("Unknown command", or the message of the
\* error thrown).
C11_PostOnlyAfterParse ==
    [][/\ (posts' # <<>> /\ posts' # posts) =>
              /\ pc = "returned"
              /\ matchResult # None
              /\ error = None
              /\ \A n \in 1..Len(posts') :
                     /\ posts'[n].body = parsedArgs
                     /\ posts'[n].url = matchResult[1].command.urlCall
       /\ (pc = "matched" /\ matchResult = None) =>
              /\ pc' = "serve"
              /\ posts' = <<>>
              /\ replies' = <<Reply("unknown", <<>>)>>
       /\ pc = "thrown" =>
              /\ pc' = "serve"
              /\ posts' = <<>>
              /\ error # None
              /\ replies' = <<Reply("error", error[1].message)>>
       /\ pc' \in InvocationSteps => posts' = <<>>
      ]_vars

\* a message that matches a command but lacks its required argument has
\* been answered with the error, and nothing was posted
C11_Witness ==
    /\ pc = "serve"
    /\ msgText = <<"/", "a">>
    /\ replies = <<Reply("error", "Missing required argument: --")>>
    /\ posts = <<>>
    /\ \E r \in commands : r.key = <<"a">> /\ Len(r.args) = 1 /\ r.args[1].required

\* C12: handling one message sends at most one webhook POST, whatever the
\* outcome of the fetch (2xx, another status, a network error), and no step
\* of an invocation changes the commands table.
C12_OnePostStoreUntouched ==
    [][/\ Len(posts') <= 1
       /\ pc \in InvocationSteps => commands' = commands
      ]_vars

\* a POST ended in a network error: it is the only one, and the table still
\* holds the command
C12_Witness ==
    /\ pc = "serve"
    /\ Len(posts) = 1
    /\ posts[1].outcome = "network"
    /\ replies[Len(replies)] = Reply("network error", <<>>)
    /\ \E r \in commands : r.urlCall = posts[1].url

\* the keys whose last operation in chat was a successful register
Registered == {k \in DOMAIN lastOp : lastOp[k] = "registered"}

\* C16: findBestMatch works on the table as it is when the message is
\* handled: its result is a row of the table; a key whose last operation was
\* a delete is never the match; and the longest key that qualifies for the
\* input among those whose last operation was a successful register is the
\* match.
C16_MatchUsesCurrentTable ==
    [][(pc = "findBestMatch" /\ pc' = "matched") =>
          /\ matchResult' # None => matchResult'[1].command \in commands
          /\ \A k \in DOMAIN lastOp :
                 /\ lastOp[k] = "deleted" =>
                        (matchResult' = None \/ matchResult'[1].command.key # k)
                 /\ (/\ k \in Registered
                     /\ Qualifies(k, input)
                     /\ \A k2 \in Registered :
                            Qualifies(k2, input) => Len(k2) <= Len(k)) =>
                        (matchResult' # None /\ matchResult'[1].command.key = k)
      ]_vars

\* "a b" was registered and then deleted while "a" is registered: a message
\* for "a b" has just been matched to "a"
C16_Witness ==
    /\ pc = "matched"
    /\ <<"a", " ", "b">> \in DOMAIN lastOp
    /\ lastOp[<<"a", " ", "b">>] = "deleted"
    /\ <<"a">> \in Registered
    /\ StartsWith(input, <<"a", " ", "b">>)
    /\ matchResult # None
    /\ matchResult[1].command.key = <<"a">>

\* the content of the message under way, worked out from its text: the text
\* after the "/" without the spaces at its two ends
IsContentOf(content, t) ==
    /\ StartsWith(t, <<"/">>)
    /\ IsTrimOf(content, SubSeq(t, 2, Len(t)))

BuiltInContent(content) ==
    \/ StartsWith(content, <<"c", "o", "m", "m", "a", "n", "d", " ">>)
    \/ content = <<"h", "e", "l", "p">>
    \/ content = <<"q", "r">>

\* C20: a message whose content starts with "command " or is "help" or "qr"
\* is served by the built-in branch: it never reaches findBestMatch and no
\* POST is sent for it, also when the key of a registered command matches
\* the content; only other contents reach the custom commands.
C20_BuiltInFirst ==
    \A content \in {MessageContent(msgText)} :
        (IsContentOf(content, msgText) /\ BuiltInContent(content)) =>
            /\ pc = "serve"
            /\ posts = <<>>
            /\ Len(replies) = 1
            /\ replies[1].kind \in
                   {"registered", "deleted", "list", "usage", "help", "qr", "error"}

\* "/help" was answered by the built-in help while a command with the key
\* "help" is registered
C20_Witness ==
    /\ msgText = <<"/", "h", "e", "l", "p">>
    /\ replies = <<Reply("help", <<>>)>>
    /\ \E r \in commands : r.key = <<"h", "e", "l", "p">>

-----------------------------------------------------------------------------
(* The HTTP server: the auth middleware in front of every route *)

\* config.TRA_API_KEY: a non-empty string
TraApiKey == <<"k">>

RootPath == <<"/">>
LoginPath == <<"/", "l", "o", "g", "i", "n">>
ApiLoginPath == <<"/", "a", "p", "i", "/", "l", "o", "g", "i", "n">>
DashboardPath == <<"/", "d", "a", "s", "h", "b", "o", "a", "r", "d">>
QrStatusPath == <<"/", "a", "p", "i", "/", "q", "r", "-", "s", "t", "a", "t", "u", "s">>
RegisterTextPath == <<"/", "a", "p", "i", "/", "c", "o", "m", "m", "a", "n", "d", "s", "/", "r", "e", "g", "i", "s", "t", "e", "r", "-", "t", "e", "x", "t">>
SavePath == <<"/", "a", "p", "i", "/", "c", "o", "m", "m", "a", "n", "d", "s", "/", "s", "a", "v", "e">>
CommandsPathPrefix == <<"/", "a", "p", "i", "/", "c", "o", "m", "m", "a", "n", "d", "s", "/">>
SendMessagePath == <<"/", "a", "p", "i", "/", "s", "e", "n", "d", "-", "m", "e", "s", "s", "a", "g", "e">>
ApiPrefix == <<"/", "a", "p", "i">>
CookiePattern == <<"t", "r", "a", "_", "k", "e", "y", "=">>

\* a || b on optional strings: a when it is a non-empty string, else b
OrElse(a, b) == IF a # None /\ a[1] # <<>> THEN a ELSE b

\* cookie.match(/tra_key=([^;]+)/)?.[1] on the Cookie header: the group of
\* the leftmost match, None when the header is absent or nothing matches
CookieKey(cookie) ==
    IF cookie = None THEN None
    ELSE LET c == cookie[1]
             starts == {p \in 1..Len(c) :
                           /\ HasAt(c, p, CookiePattern)
                           /\ p + Len(CookiePattern) <= Len(c)
                           /\ c[p + Len(CookiePattern)] # ";"}
         IN  IF starts = {} THEN None
             ELSE LET from == Min(starts) + Len(CookiePattern)
                      to == Min({q \in from..(Len(c) + 1) :
                                    q = Len(c) + 1 \/ c[q] = ";"})
                  IN  Some(SubSeq(c, from, to - 1))

\* the middleware: "next" when the route handler is to run, else the answer
AuthMiddleware(req) ==
    LET apiKey == OrElse(req.header, req.query)
        cookieKey == CookieKey(req.cookie)
    IN  IF req.path = RootPath \/ req.path = LoginPath \/ req.path = ApiLoginPath
        THEN "next"
        ELSE IF apiKey = Some(TraApiKey) \/ cookieKey = Some(TraApiKey)
        THEN "next"
        ELSE IF StartsWith(req.path, ApiPrefix) THEN "401"
        ELSE "redirect /"

HttpAnswer(status, handled) == Some([status |-> status, handled |-> handled])

\* the bodies the requests carry
HttpCommandText == <<"a", " ", "-", "-", "u", "r", "l", "C", "a", "l", "l", " ", "h", ":", "/", "/", "x">>
HttpSaveCommand == CommandDef(<<"b">>, None, ValidUrl, <<>>)
HttpMessageText == <<"h", "i">>

\* the handler of the route of req; connected says whether the WhatsApp
\* socket is up
RouteHandler(req, connected) ==
    IF req.method = "POST" /\ req.path = RegisterTextPath
    THEN /\ RegisterText(HttpCommandText)
         /\ httpResponse' = HttpAnswer(IF response'.ok THEN "redirect /dashboard"
                                       ELSE "400", TRUE)
         /\ replies' = <<>>
    ELSE IF req.method = "POST" /\ req.path = SavePath
    THEN /\ SaveCommand(None, HttpSaveCommand)
         /\ httpResponse' = HttpAnswer(IF response'.ok THEN "200" ELSE "400", TRUE)
         /\ replies' = <<>>
    ELSE IF /\ req.method = "DELETE"
            /\ StartsWith(req.path, CommandsPathPrefix)
            /\ Len(req.path) > Len(CommandsPathPrefix)
    THEN /\ DeleteCommand(Slice(req.path, Len(CommandsPathPrefix)))
         /\ httpResponse' = HttpAnswer("redirect /dashboard", TRUE)
         /\ replies' = <<>>
    ELSE IF req.method = "POST" /\ req.path = SendMessagePath
    THEN /\ IF connected
            THEN /\ replies' = <<Reply("sent", HttpMessageText)>>
                 /\ httpResponse' = HttpAnswer("200", TRUE)
            ELSE /\ replies' = <<>>
                 /\ httpResponse' = HttpAnswer("500", TRUE)
         /\ UNCHANGED <<commands, storeVars>>
    ELSE IF req.method = "POST" /\ req.path = LoginPath
    THEN /\ httpResponse' = HttpAnswer(IF req.formKey = Some(TraApiKey)
                                       THEN "redirect /dashboard"
                                       ELSE "redirect /?error=invalid", TRUE)
         /\ replies' = <<>>
         /\ UNCHANGED <<commands, storeVars>>
    ELSE IF req.method = "GET"
            /\ req.path \in {RootPath, DashboardPath, QrStatusPath}
    THEN /\ httpResponse' = HttpAnswer("200", TRUE)
         /\ replies' = <<>>
         /\ UNCHANGED <<commands, storeVars>>
    ELSE /\ httpResponse' = HttpAnswer("404", FALSE)
         /\ replies' = <<>>
         /\ UNCHANGED <<commands, storeVars>>

HttpRequest(method, path, header, query, cookie, formKey) ==
    [method |-> method, path |-> path, header |-> header, query |-> query,
     cookie |-> cookie, formKey |-> formKey]

HttpRoutes ==
    {<<"GET", RootPath>>, <<"POST", LoginPath>>, <<"POST", ApiLoginPath>>,
     <<"GET", DashboardPath>>, <<"GET", QrStatusPath>>,
     <<"POST", RegisterTextPath>>, <<"POST", SavePath>>,
     <<"DELETE", CommandsPathPrefix \o <<"a">>>>,
     <<"DELETE", CommandsPathPrefix \o <<"b">>>>,
     <<"POST", SendMessagePath>>, <<"GET", <<"/", "x">>>>}
OfferedKeys == {None, Some(TraApiKey), Some(<<"w">>)}
CookieHeaders ==
    {None,
     Some(<<"t", "r", "a", "_", "k", "e", "y", "=", "k">>),
     Some(<<"x", "t", "r", "a", "_", "k", "e", "y", "=", "k">>),
     Some(<<"t", "r", "a", "_", "k", "e", "y", "=", "w", ";", " ", "t", "r", "a", "_", "k", "e", "y", "=", "k">>)}
HttpRequests ==
    {HttpRequest(route[1], route[2], header, query, cookie, None) :
        route \in HttpRoutes, header \in OfferedKeys,
        query \in {None, Some(TraApiKey)}, cookie \in CookieHeaders}
      \cup {HttpRequest("POST", LoginPath, None, None, None, formKey) :
                formKey \in {Some(TraApiKey), Some(<<"w">>)}}

\* one HTTP request, from the middleware to the answer
ServeHttp ==
    /\ pc = "serve"
    /\ \E req \in HttpRequests, connected \in BOOLEAN :
          /\ httpRequest' = Some(req)
          /\ LET verdict == AuthMiddleware(req)
             IN  IF verdict = "next" THEN RouteHandler(req, connected)
                 ELSE /\ httpResponse' = HttpAnswer(verdict, FALSE)
                      /\ replies' = <<>>
                      /\ UNCHANGED <<commands, storeVars>>
    /\ UNCHANGED <<pc, matchVars, parseVars, error, msgText, posts, lastOp>>

NextHttp == ServeHttp

SpecHttp == Init /\ [][NextHttp]_vars

\* the pieces of s between the occurrences of the character c
RECURSIVE SplitOnChar(_, _, _)
SplitOnChar(s, c, piece) ==
    IF s = <<>> THEN <<piece>>
    ELSE IF Head(s) = c THEN <<piece>> \o SplitOnChar(Tail(s), c, <<>>)
    ELSE SplitOnChar(Tail(s), c, Append(piece, Head(s)))

\* the values of the cookies named tra_key in a Cookie header: the header is
\* a list of name=value pairs separated by ";"
TraKeyCookies(cookie) ==
    IF cookie = None THEN {}
    ELSE LET pairs == SplitOnChar(cookie[1], ";", <<>>)
         IN  {Slice(TrimStart(pairs[n]), Len(CookiePattern)) :
                 n \in {m \in 1..Len(pairs) :
                            StartsWith(TrimStart(pairs[m]), CookiePattern)}}

\* the request carries the configured key in the x-api-key header, the key
\* query parameter or the tra_key cookie
CarriesKey(req) ==
    \/ req.header = Some(TraApiKey)
    \/ req.query = Some(TraApiKey)
    \/ TraApiKey \in TraKeyCookies(req.cookie)

ExemptPaths == {RootPath, LoginPath, ApiLoginPath}

\* C17: an HTTP request that does not carry the configured key in the
\* x-api-key header, the key query parameter or the tra_key cookie changes
\* neither the table nor sends a WhatsApp message, and unless its path is
\* "/", "/login" or "/api/login" it is answered 401 (path starting with
\* /api) or redirected to "/" without its route handler running.
C17_NoChangeWithoutKey ==
    [][(httpRequest' # None /\ ~CarriesKey(httpRequest'[1])) =>
          /\ commands' = commands
          /\ replies' = <<>>
          /\ httpRequest'[1].path \notin ExemptPaths =>
                 /\ ~httpResponse'[1].handled
                 /\ httpResponse'[1].status =
                        IF StartsWith(httpRequest'[1].path, ApiPrefix)
                        THEN "401" ELSE "redirect /"
      ]_vars

====
